---- MODULE Spec2Model ----
(***************************************************************************)
(* Model of xml_processor.py (XMIParser, ModelProcessor, ConfigGenerator,  *)
(* MetaGenerator, XMLProcessor) and of main.py.                            *)
(*                                                                         *)
(* Representation of Python values:                                       *)
(*   - an Optional[...] value is a sequence of length 0 (None) or 1;       *)
(*   - a multiplicity string is the sequence of its characters;            *)
(*   - a rendered text is the sequence of its tokens: " " is one space,    *)
(*     "\n" one line break, names and types are single tokens;             *)
(*   - the dict self.classes is the sequence of its values in insertion    *)
(*     order, keyed by the field name; a reference to a ClassInfo held in  *)
(*     a children list is the key of that entry.                           *)
(***************************************************************************)
EXTENDS Integers, Sequences, FiniteSets, TLC

VARIABLES
    doc,          \* the input file: [ok, classElems, aggElems]
    classes,      \* ModelProcessor.classes
    aggregations, \* ModelProcessor.aggregations
    idx,          \* position of the for loop of _process_aggregations
    pc,           \* where the running program is
    exc,          \* the exception that ended the last call, if any
    cfgOut,       \* Optional: what generate_config_xml last returned
    metaOut,      \* Optional: what generate_meta_json last returned
    resolved,     \* Optional: self.classes when process last returned
    opened,       \* the output files main has opened so far
    configFile,   \* Optional: content of out/config.xml
    metaFile,     \* Optional: content of out/meta.json
    stack         \* call stack of _build_xml (step-wise rendering)

vars == <<doc, classes, aggregations, idx, pc, exc, cfgOut, metaOut,
          resolved, opened, configFile, metaFile, stack>>

NoneVal == <<>>
Some(v) == <<v>>

\* Longest aggregation list of an input document.
MaxAggs == 2

(***************************************************************************)
(* Input documents                                                         *)
(***************************************************************************)
ClassNames == {"A", "B", "C"}
Unknown == "Z"

\* The Attribute elements below each Class element, by class name.
AttrElems(n) ==
    CASE n = "A" -> <<>>
      [] n = "B" -> <<[name |-> "x", type |-> "int"]>>
      [] OTHER   -> <<[name |-> "x", type |-> "int"], [name |-> "y", type |-> "str"]>>

\* XML attribute documentation of a Class element, by class name.
DocAttr(n) ==
    CASE n = "A" -> NoneVal
      [] n = "B" -> Some("docB")
      [] OTHER   -> Some("")

\* XML attribute isRoot of a Class element: absent (or, for C, "false") or "true".
RootAttrs(n) == IF n = "C" THEN {Some("false"), Some("true")} ELSE {NoneVal, Some("true")}

ClassElem(n, r) ==
    [name |-> n, isRoot |-> r, documentation |-> DocAttr(n), attrs |-> AttrElems(n)]

ClassElems == UNION { { ClassElem(n, r) : r \in RootAttrs(n) } : n \in ClassNames }

S1 == <<"1">>
S1Star == <<"1", ".", ".", "*">>
S05 == <<"0", ".", ".", "5">>
S123 == <<"1", ".", ".", "2", ".", ".", "3">>
S1Dots2 == <<"1", ".", ".", ".", "2">>

AggElem(s, t, sm, tm) ==
    [source |-> s, target |-> t, sourceMultiplicity |-> sm, targetMultiplicity |-> tm]

AggElems ==
    { AggElem("B", "A", Some(S05), Some(S1)),
      AggElem("B", "A", Some(S1), NoneVal),
      AggElem("C", "B", Some(S1Star), Some(S1)),
      AggElem("C", "A", Some(S123), Some(S05)),
      AggElem("A", "B", Some(S1Dots2), Some(S1)),
      AggElem("A", "A", Some(<<>>), Some(S1)),
      AggElem("B", Unknown, Some(S1Star), Some(S1)),
      AggElem(Unknown, "A", Some(S1), Some(S1)),
      AggElem("C", "A", NoneVal, Some(S1)) }

SeqsUpTo(S, n) == UNION { [1..k -> S] : k \in 0..n }

\* The orders in which Class elements follow each other in a document; the
\* last one repeats a class name.
NameOrders == { <<"A", "B", "C">>, <<"C", "B", "A">>, <<"A", "B", "A">> }

\* The lists of Class elements whose names are the first k names of order o.
ListsOf(o, k) == { s \in [1..k -> ClassElems] : \A i \in 1..k : s[i].name = o[i] }

ClassElemLists == UNION { UNION { ListsOf(o, k) : k \in 0..Len(o) } : o \in NameOrders }

Malformed == [ok |-> FALSE, classElems |-> <<>>, aggElems |-> <<>>]

Docs ==
    { [ok |-> TRUE, classElems |-> c, aggElems |-> a] :
        c \in ClassElemLists, a \in SeqsUpTo(AggElems, MaxAggs) }
    \cup {Malformed}

(***************************************************************************)
(* XMIParser                                                               *)
(***************************************************************************)
\* Element.get(key, default)
GetDefault(opt, default) == IF opt = NoneVal THEN default ELSE opt[1]

\* dict.get(key): the position of the entry keyed name, 0 for None.
IndexOf(cls, name) ==
    IF \E i \in 1..Len(cls) : cls[i].name = name
    THEN CHOOSE i \in 1..Len(cls) : cls[i].name = name
    ELSE 0

\* classes[class_name] = value: a present key keeps its place.
DictSet(cls, value) ==
    IF IndexOf(cls, value.name) = 0
    THEN Append(cls, value)
    ELSE [cls EXCEPT ![IndexOf(cls, value.name)] = value]

\* The ClassInfo built from one Class element.
NewClassInfo(e) ==
    [ name             |-> e.name,
      is_root          |-> (e.isRoot = Some("true")),
      documentation    |-> GetDefault(e.documentation, ""),
      attributes       |-> [i \in 1..Len(e.attrs) |->
                              [name |-> e.attrs[i].name, type |-> e.attrs[i].type]],
      children         |-> <<>>,
      min_multiplicity |-> NoneVal,
      max_multiplicity |-> NoneVal ]

RECURSIVE ParseClassElems(_)
ParseClassElems(elems) ==
    IF elems = <<>> THEN <<>>
    ELSE DictSet(ParseClassElems(SubSeq(elems, 1, Len(elems) - 1)),
                 NewClassInfo(elems[Len(elems)]))

ParseAggElems(elems) ==
    [i \in 1..Len(elems) |->
        [ source             |-> elems[i].source,
          target             |-> elems[i].target,
          sourceMultiplicity |-> elems[i].sourceMultiplicity,
          targetMultiplicity |-> elems[i].targetMultiplicity ]]

(***************************************************************************)
(* ModelProcessor                                                          *)
(***************************************************************************)
Separator == <<".", ".">>

\* str.split(Separator): the separators are found from the left.
RECURSIVE SplitFrom(_, _, _)
SplitFrom(s, i, cur) ==
    IF i > Len(s) THEN <<cur>>
    ELSE IF i < Len(s) /\ SubSeq(s, i, i + 1) = Separator
         THEN <<cur>> \o SplitFrom(s, i + 2, <<>>)
         ELSE SplitFrom(s, i + 1, Append(cur, s[i]))

Split(s) == SplitFrom(s, 1, <<>>)

\* Whether the body of the for loop raises on agg (None has no split).
AggRaises(cls, agg) ==
    /\ IndexOf(cls, agg.target) # 0
    /\ IndexOf(cls, agg.source) # 0
    /\ agg.sourceMultiplicity = NoneVal

\* Mutant: a multiplicity once set is kept, so the first aggregation wins.
SetMultiplicityFirstWins(cls, s, multiplicity) ==
    IF cls[s].min_multiplicity # NoneVal THEN cls
    ELSE [cls EXCEPT ![s].min_multiplicity = Some(multiplicity[1]),
                     ![s].max_multiplicity = Some(multiplicity[Len(multiplicity)])]

\* The two assignments to the source class.
SetMultiplicity(cls, s, multiplicity) ==
    [cls EXCEPT ![s].min_multiplicity = Some(multiplicity[1]),
                ![s].max_multiplicity =
                    Some(IF Len(multiplicity) > 1 THEN multiplicity[Len(multiplicity)]
                         ELSE multiplicity[1])]

\* Mutant: a class already among the children is not appended again.
AppendChildOnce(cls, t, agg) ==
    IF \E i \in 1..Len(cls[t].children) : cls[t].children[i] = agg.source
    THEN cls
    ELSE [cls EXCEPT ![t].children = Append(@, agg.source)]

\* target_class.children.append(source_class)
AppendChild(cls, t, agg) == [cls EXCEPT ![t].children = Append(@, agg.source)]

\* Mutant: the source class is looked up, and annotated, before the target.
ProcessAggregationSourceFirst(cls, agg) ==
    LET t == IndexOf(cls, agg.target)
        s == IndexOf(cls, agg.source)
    IN  IF s = 0 \/ agg.sourceMultiplicity = NoneVal THEN cls
        ELSE IF t = 0 THEN SetMultiplicity(cls, s, Split(agg.sourceMultiplicity[1]))
        ELSE AppendChild(SetMultiplicity(cls, s, Split(agg.sourceMultiplicity[1])), t, agg)

\* One pass of the body of the for loop, for an agg that does not raise.
ProcessAggregation(cls, agg) ==
    LET t == IndexOf(cls, agg.target)
        s == IndexOf(cls, agg.source)
    IN  IF t = 0 THEN cls
        ELSE IF s = 0 THEN cls
        ELSE AppendChild(SetMultiplicity(cls, s, Split(agg.sourceMultiplicity[1])), t, agg)

(***************************************************************************)
(* ConfigGenerator                                                         *)
(***************************************************************************)
IndentUnit == <<" ", " ", " ", " ">>

\* '    ' * indent
RECURSIVE IndentStr(_)
IndentStr(indent) == IF indent = 0 THEN <<>> ELSE IndentUnit \o IndentStr(indent - 1)

\* '\n'.join(result)
RECURSIVE Join(_)
Join(result) ==
    IF result = <<>> THEN <<>>
    ELSE IF Len(result) = 1 THEN result[1]
    ELSE result[1] \o <<"\n">> \o Join(Tail(result))

OpenTag(name) == <<"<", name, ">">>
CloseTag(name) == <<"</", name, ">">>

\* Mutant: the attribute line gets the indentation of its class's tags.
AttrLineFlat(indent, attr) ==
    IndentStr(indent) \o OpenTag(attr.name) \o <<attr.type>> \o CloseTag(attr.name)

\* The line of one attribute of a class rendered at depth indent.
AttrLine(indent, attr) ==
    IndentStr(indent) \o IndentUnit \o OpenTag(attr.name) \o <<attr.type>> \o CloseTag(attr.name)

\* What a call that ended with RecursionError yields.
RecursionError == <<"RecursionError">>

\* A call path longer than this holds some class twice, so the recursion
\* never ends by itself: the interpreter ends it with RecursionError.
RecursionLimit(cls) == Len(cls) + 1

\* The list result of _build_xml before the join, given the children's texts.
BuildLines(c, indent, childTexts) ==
    <<IndentStr(indent) \o OpenTag(c.name)>>
    \o [i \in 1..Len(c.attributes) |-> AttrLine(indent, c.attributes[i])]
    \o childTexts
    \o <<IndentStr(indent) \o CloseTag(c.name)>>

\* _build_xml(class_info, indent) for the class keyed name.
RECURSIVE BuildXml(_, _, _)
BuildXml(cls, name, indent) ==
    IF indent + 1 > RecursionLimit(cls) THEN RecursionError
    ELSE LET c == cls[IndexOf(cls, name)]
             childTexts == [i \in 1..Len(c.children) |->
                               BuildXml(cls, c.children[i], indent + 1)]
         IN  IF \E i \in 1..Len(childTexts) : childTexts[i] = RecursionError
             THEN RecursionError
             ELSE Join(BuildLines(c, indent, childTexts))

\* Mutant: the last root class of the mapping is taken.
RootClassLast(cls) ==
    IF \E i \in 1..Len(cls) : cls[i].is_root
    THEN CHOOSE i \in 1..Len(cls) :
            cls[i].is_root /\ \A j \in (i + 1)..Len(cls) : ~cls[j].is_root
    ELSE 0

\* next((c for c in classes.values() if c.is_root), None): position or 0.
RootClass(cls) ==
    IF \E i \in 1..Len(cls) : cls[i].is_root
    THEN CHOOSE i \in 1..Len(cls) :
            cls[i].is_root /\ \A j \in 1..(i - 1) : ~cls[j].is_root
    ELSE 0

\* ConfigGenerator.generate
ConfigGenerate(cls) ==
    IF RootClass(cls) # 0 THEN BuildXml(cls, cls[RootClass(cls)].name, 0) ELSE <<>>

(***************************************************************************)
(* MetaGenerator                                                           *)
(***************************************************************************)
\* class_meta['max'] and class_meta['min'], each only when set, max first.
MultiplicityKeys(c) ==
    (IF c.max_multiplicity # NoneVal THEN << <<"max", c.max_multiplicity[1]>> >> ELSE <<>>)
    \o (IF c.min_multiplicity # NoneVal THEN << <<"min", c.min_multiplicity[1]>> >> ELSE <<>>)

\* Mutant: the children are listed before the attributes.
ParametersChildrenFirst(c) ==
    [i \in 1..Len(c.children) |->
        << <<"name", c.children[i]>>, <<"type", "class">> >>]
    \o [i \in 1..Len(c.attributes) |->
        << <<"name", c.attributes[i].name>>, <<"type", c.attributes[i].type>> >>]

\* class_meta['parameters'] after the two loops.
Parameters(c) ==
    [i \in 1..Len(c.attributes) |->
        << <<"name", c.attributes[i].name>>, <<"type", c.attributes[i].type>> >>]
    \o [i \in 1..Len(c.children) |->
        << <<"name", c.children[i]>>, <<"type", "class">> >>]

\* One class_meta dict: its (key, value) pairs in insertion order.
ClassMeta(c) ==
    << <<"class", c.name>>, <<"documentation", c.documentation>>, <<"isRoot", c.is_root>> >>
    \o MultiplicityKeys(c)
    \o << <<"parameters", Parameters(c)>> >>

\* MetaGenerator.generate: the array handed to json.dumps, which writes the
\* objects and their keys in this order.
MetaGenerate(cls) == [i \in 1..Len(cls) |-> ClassMeta(cls[i])]

(***************************************************************************)
(* XMLProcessor under a client that parses first and then calls the three  *)
(* public methods in any order; it parses again only after it has both     *)
(* outputs.  The for loop of _process_aggregations takes one step per      *)
(* aggregation: nothing else runs in between (the program has one thread). *)
(***************************************************************************)
InitModel ==
    /\ doc \in Docs
    /\ classes = <<>>
    /\ aggregations = <<>>
    /\ idx = 0
    /\ exc = NoneVal
    /\ cfgOut = NoneVal
    /\ metaOut = NoneVal
    /\ resolved = NoneVal
    /\ opened = {}
    /\ stack = <<>>

Init ==
    /\ InitModel
    /\ pc = "new"
    /\ configFile = NoneVal
    /\ metaFile = NoneVal

Callable == pc \in {"ready", "raised"}

\* Mutant: a mapping that already holds classes is kept instead of being
\* replaced by the newly parsed one.
ParseClassesKeep ==
    /\ pc = "new" \/ (Callable /\ cfgOut # NoneVal /\ metaOut # NoneVal)
    /\ IF ~doc.ok
       THEN /\ pc' = "raised"
            /\ exc' = Some("ParseError")
            /\ UNCHANGED <<classes, aggregations, idx, resolved>>
       ELSE /\ classes' = IF classes = <<>> THEN ParseClassElems(doc.classElems) ELSE classes
            /\ aggregations' = ParseAggElems(doc.aggElems)
            /\ idx' = 1
            /\ exc' = NoneVal
            /\ IF doc.aggElems = <<>>
               THEN pc' = "ready" /\ resolved' = Some(classes')
               ELSE pc' = "processing" /\ UNCHANGED resolved
    /\ UNCHANGED <<doc, cfgOut, metaOut, opened, configFile, metaFile, stack>>

\* parse_classes up to the for loop: ET.parse raises on a malformed file
\* before anything is assigned; otherwise both fields are replaced.
ParseClasses ==
    /\ pc = "new" \/ (Callable /\ cfgOut # NoneVal /\ metaOut # NoneVal)
    /\ IF ~doc.ok
       THEN /\ pc' = "raised"
            /\ exc' = Some("ParseError")
            /\ UNCHANGED <<classes, aggregations, idx, resolved>>
       ELSE /\ classes' = ParseClassElems(doc.classElems)
            /\ aggregations' = ParseAggElems(doc.aggElems)
            /\ idx' = 1
            /\ exc' = NoneVal
            /\ IF doc.aggElems = <<>>
               THEN pc' = "ready" /\ resolved' = Some(classes')
               ELSE pc' = "processing" /\ UNCHANGED resolved
    /\ UNCHANGED <<doc, cfgOut, metaOut, opened, configFile, metaFile, stack>>

\* One iteration of the for loop; after the last one process returns.
ProcessStep ==
    /\ pc = "processing"
    /\ IF AggRaises(classes, aggregations[idx])
       THEN /\ pc' = "raised"
            /\ exc' = Some("AttributeError")
            /\ UNCHANGED <<classes, idx, resolved>>
       ELSE /\ classes' = ProcessAggregation(classes, aggregations[idx])
            /\ idx' = idx + 1
            /\ exc' = exc
            /\ IF idx = Len(aggregations)
               THEN pc' = "ready" /\ resolved' = Some(classes')
               ELSE pc' = "processing" /\ UNCHANGED resolved
    /\ UNCHANGED <<doc, aggregations, cfgOut, metaOut, opened, configFile, metaFile, stack>>

GenerateConfigXml ==
    /\ Callable
    /\ cfgOut' = Some(ConfigGenerate(classes))
    /\ UNCHANGED <<doc, classes, aggregations, idx, pc, exc, metaOut, resolved,
                   opened, configFile, metaFile, stack>>

GenerateMetaJson ==
    /\ Callable
    /\ metaOut' = Some(MetaGenerate(classes))
    /\ UNCHANGED <<doc, classes, aggregations, idx, pc, exc, cfgOut, resolved,
                   opened, configFile, metaFile, stack>>

Next ==
    \/ ParseClasses
    \/ ProcessStep
    \/ GenerateConfigXml
    \/ GenerateMetaJson

Spec == Init /\ [][Next]_vars

(***************************************************************************)
(* main.py: one step per statement; pc names the line about to run.  A     *)
(* call made by a statement runs to its end within the step.               *)
(***************************************************************************)
\* What an earlier run left in an output file.
Stale == <<"stale">>

MainInit ==
    /\ InitModel
    /\ pc = "main5"
    /\ configFile \in {NoneVal, Some(Stale)}
    /\ metaFile = configFile

\* _process_aggregations from position i on: the mapping it ends with, the
\* position it ends at and whether it raised there.
RECURSIVE ProcessFrom(_, _, _)
ProcessFrom(cls, aggs, i) ==
    IF i > Len(aggs) THEN [classes |-> cls, idx |-> i, raised |-> FALSE]
    ELSE IF AggRaises(cls, aggs[i]) THEN [classes |-> cls, idx |-> i, raised |-> TRUE]
    ELSE ProcessFrom(ProcessAggregation(cls, aggs[i]), aggs, i + 1)

\* Mutant: the config file is opened for writing before anything is parsed.
MakeDirsAndOpen ==
    /\ pc = "main5"
    /\ pc' = "main7"
    /\ opened' = opened \cup {"out/config.xml"}
    /\ configFile' = Some(<<>>)
    /\ UNCHANGED <<doc, classes, aggregations, idx, exc, cfgOut, metaOut, resolved,
                   metaFile, stack>>

\* os.makedirs('out', exist_ok=True)
MakeDirs ==
    /\ pc = "main5"
    /\ pc' = "main7"
    /\ UNCHANGED <<doc, classes, aggregations, idx, exc, cfgOut, metaOut, resolved,
                   opened, configFile, metaFile, stack>>

\* processor = XMLProcessor('input/test_input.xml')
NewXMLProcessor ==
    /\ pc = "main7"
    /\ pc' = "main8"
    /\ classes' = <<>>
    /\ aggregations' = <<>>
    /\ UNCHANGED <<doc, idx, exc, cfgOut, metaOut, resolved, opened, configFile,
                   metaFile, stack>>

\* processor.parse_classes(): an exception it raises ends main.
MainParseClasses ==
    /\ pc = "main8"
    /\ IF ~doc.ok
       THEN /\ pc' = "raised"
            /\ exc' = Some("ParseError")
            /\ UNCHANGED <<classes, aggregations, idx, resolved>>
       ELSE LET r == ProcessFrom(ParseClassElems(doc.classElems),
                                 ParseAggElems(doc.aggElems), 1)
            IN  /\ classes' = r.classes
                /\ aggregations' = ParseAggElems(doc.aggElems)
                /\ idx' = r.idx
                /\ pc' = IF r.raised THEN "raised" ELSE "main10"
                /\ exc' = IF r.raised THEN Some("AttributeError") ELSE NoneVal
                /\ resolved' = IF r.raised THEN resolved ELSE Some(r.classes)
    /\ UNCHANGED <<doc, cfgOut, metaOut, opened, configFile, metaFile, stack>>

\* open('out/config.xml', 'w'): the file exists and is empty.
OpenConfig ==
    /\ pc = "main10"
    /\ pc' = "main11"
    /\ opened' = opened \cup {"out/config.xml"}
    /\ configFile' = Some(<<>>)
    /\ UNCHANGED <<doc, classes, aggregations, idx, exc, cfgOut, metaOut, resolved,
                   metaFile, stack>>

\* f.write(processor.generate_config_xml()); a RecursionError ends main
\* after the with block has closed the file.
WriteConfig ==
    /\ pc = "main11"
    /\ IF ConfigGenerate(classes) = RecursionError
       THEN /\ pc' = "raised"
            /\ exc' = Some("RecursionError")
            /\ UNCHANGED <<cfgOut, configFile>>
       ELSE /\ pc' = "main13"
            /\ cfgOut' = Some(ConfigGenerate(classes))
            /\ configFile' = cfgOut'
            /\ exc' = exc
    /\ UNCHANGED <<doc, classes, aggregations, idx, metaOut, resolved, opened,
                   metaFile, stack>>

\* open('out/meta.json', 'w')
OpenMeta ==
    /\ pc = "main13"
    /\ pc' = "main14"
    /\ opened' = opened \cup {"out/meta.json"}
    /\ metaFile' = Some(<<>>)
    /\ UNCHANGED <<doc, classes, aggregations, idx, exc, cfgOut, metaOut, resolved,
                   configFile, stack>>

\* f.write(processor.generate_meta_json())
WriteMeta ==
    /\ pc = "main14"
    /\ pc' = "done"
    /\ metaOut' = Some(MetaGenerate(classes))
    /\ metaFile' = metaOut'
    /\ UNCHANGED <<doc, classes, aggregations, idx, exc, cfgOut, resolved, opened,
                   configFile, stack>>

MainNext ==
    \/ MakeDirs
    \/ NewXMLProcessor
    \/ MainParseClasses
    \/ OpenConfig
    \/ WriteConfig
    \/ OpenMeta
    \/ WriteMeta

MainSpec == MainInit /\ [][MainNext]_vars

(***************************************************************************)
(* The pipeline step by step: parse_classes, then generate_meta_json one   *)
(* class at a time, then generate_config_xml one call or return of         *)
(* _build_xml at a time (the metadata first, so that both renders run on   *)
(* every model).  A running program keeps running: weak fairness.          *)
(***************************************************************************)
\* meta_data = []
MetaBegin ==
    /\ pc = "ready"
    /\ metaOut = NoneVal
    /\ metaOut' = Some(<<>>)
    /\ pc' = "meta"
    /\ UNCHANGED <<doc, classes, aggregations, idx, exc, cfgOut, resolved, opened,
                   configFile, metaFile, stack>>

\* One iteration of the loop over classes.values().
MetaStep ==
    /\ pc = "meta"
    /\ Len(metaOut[1]) < Len(classes)
    /\ metaOut' = Some(Append(metaOut[1], ClassMeta(classes[Len(metaOut[1]) + 1])))
    /\ UNCHANGED <<doc, classes, aggregations, idx, pc, exc, cfgOut, resolved, opened,
                   configFile, metaFile, stack>>

\* The loop is over: json.dumps and return.
MetaReturn ==
    /\ pc = "meta"
    /\ Len(metaOut[1]) = Len(classes)
    /\ pc' = "cfg"
    /\ UNCHANGED <<doc, classes, aggregations, idx, exc, cfgOut, metaOut, resolved,
                   opened, configFile, metaFile, stack>>

\* The frame of a call of _build_xml when it reaches the loop over the
\* children: result holds the open tag and the attribute lines.
Frame(c, indent) ==
    [ name   |-> c.name,
      indent |-> indent,
      result |-> <<IndentStr(indent) \o OpenTag(c.name)>>
                 \o [i \in 1..Len(c.attributes) |-> AttrLine(indent, c.attributes[i])],
      next   |-> 1 ]

\* ConfigGenerator.generate up to the first call of _build_xml.
ConfigBegin ==
    /\ pc = "cfg"
    /\ IF RootClass(classes) = 0
       THEN cfgOut' = Some(<<>>) /\ pc' = "done" /\ UNCHANGED stack
       ELSE /\ stack' = <<Frame(classes[RootClass(classes)], 0)>>
            /\ pc' = "build"
            /\ UNCHANGED cfgOut
    /\ UNCHANGED <<doc, classes, aggregations, idx, exc, metaOut, resolved, opened,
                   configFile, metaFile>>

Top == stack[Len(stack)]
TopClass == classes[IndexOf(classes, Top.name)]

\* Mutant: a child that is already being rendered is not rendered again.
BuildCallGuarded ==
    /\ pc = "build"
    /\ Top.next <= Len(TopClass.children)
    /\ IF \E k \in 1..Len(stack) : stack[k].name = TopClass.children[Top.next]
       THEN stack' = [stack EXCEPT ![Len(stack)].next = @ + 1] /\ UNCHANGED <<pc, exc>>
       ELSE /\ stack' = Append(stack,
                   Frame(classes[IndexOf(classes, TopClass.children[Top.next])],
                         Top.indent + 1))
            /\ UNCHANGED <<pc, exc>>
    /\ UNCHANGED <<doc, classes, aggregations, idx, cfgOut, metaOut, resolved, opened,
                   configFile, metaFile>>

\* The loop over the children calls _build_xml for the next child; beyond
\* the recursion limit the call raises and every frame is left.
BuildCall ==
    /\ pc = "build"
    /\ Top.next <= Len(TopClass.children)
    /\ IF Len(stack) + 1 > RecursionLimit(classes)
       THEN stack' = <<>> /\ pc' = "raised" /\ exc' = Some("RecursionError")
       ELSE /\ stack' = Append(stack,
                   Frame(classes[IndexOf(classes, TopClass.children[Top.next])],
                         Top.indent + 1))
            /\ UNCHANGED <<pc, exc>>
    /\ UNCHANGED <<doc, classes, aggregations, idx, cfgOut, metaOut, resolved, opened,
                   configFile, metaFile>>

\* The loop over the children is over: the close tag, the join, and the
\* return into the caller's result or out of generate.
BuildReturn ==
    /\ pc = "build"
    /\ Top.next > Len(TopClass.children)
    /\ LET text == Join(Append(Top.result, IndentStr(Top.indent) \o CloseTag(Top.name)))
       IN  IF Len(stack) = 1
           THEN stack' = <<>> /\ cfgOut' = Some(text) /\ pc' = "done"
           ELSE /\ stack' = [SubSeq(stack, 1, Len(stack) - 1)
                                EXCEPT ![Len(stack) - 1].result = Append(@, text),
                                       ![Len(stack) - 1].next = @ + 1]
                /\ UNCHANGED <<cfgOut, pc>>
    /\ UNCHANGED <<doc, classes, aggregations, idx, exc, metaOut, resolved, opened,
                   configFile, metaFile>>

FairNext ==
    \/ ParseClasses
    \/ ProcessStep
    \/ MetaBegin
    \/ MetaStep
    \/ MetaReturn
    \/ ConfigBegin
    \/ BuildCall
    \/ BuildReturn

FairSpec == Init /\ [][FairNext]_vars /\ WF_vars(FairNext)

(***************************************************************************)
(* Properties                                                              *)
(***************************************************************************)
Keys(cls) == { cls[i].name : i \in 1..Len(cls) }

\* Both ends of agg name a class of the mapping.
Resolves(cls, agg) == agg.source \in Keys(cls) /\ agg.target \in Keys(cls)

\* The aggregations the for loop has gone through.
Processed == SubSeq(aggregations, 1, idx - 1)

\* The sources of the aggregations of aggs, in list order, that resolve and
\* whose target is t.
RECURSIVE SourcesInto(_, _, _)
SourcesInto(cls, aggs, t) ==
    IF aggs = <<>> THEN <<>>
    ELSE LET last == aggs[Len(aggs)]
             rest == SourcesInto(cls, SubSeq(aggs, 1, Len(aggs) - 1), t)
         IN  IF Resolves(cls, last) /\ last.target = t THEN Append(rest, last.source) ELSE rest

\* C1: once process has returned (and at every iteration before, and when it
\* raised, for the aggregations gone through so far), the children of every
\* class T are exactly the sources of the aggregations with target T whose
\* two names are in the mapping, one entry per aggregation, in list order.
C1_ChildrenAreResolvedSources ==
    pc \in {"processing", "ready", "raised"} =>
        /\ pc = "ready" => idx = Len(aggregations) + 1
        /\ \A i \in 1..Len(classes) :
              classes[i].children = SourcesInto(classes, Processed, classes[i].name)

\* process returned after an unresolved aggregation was skipped and the
\* next one attached its source to its target.
C1_Witness ==
    /\ pc = "ready"
    /\ Len(aggregations) = 2
    /\ ~Resolves(classes, aggregations[1])
    /\ Resolves(classes, aggregations[2])
    /\ classes[IndexOf(classes, aggregations[2].target)].children = <<aggregations[2].source>>

Max(S) == CHOOSE x \in S : \A y \in S : y <= x

\* Where a separator starts in s.
SepAt(s) == { i \in 1..(Len(s) - 1) : SubSeq(s, i, i + 1) = Separator }

\* The separators a scan from the left takes: in a run of overlapping
\* occurrences the first, the third, ...
Taken(s) ==
    { i \in SepAt(s) :
        \E k \in 0..Len(s) :
            /\ k % 2 = 0
            /\ \A j \in 1..k : (i - j) \in SepAt(s)
            /\ (i - k - 1) \notin SepAt(s) }

FirstSegment(s) ==
    IF Taken(s) = {} THEN s
    ELSE SubSeq(s, 1, (CHOOSE i \in Taken(s) : \A j \in Taken(s) : i <= j) - 1)

LastSegment(s) == IF Taken(s) = {} THEN s ELSE SubSeq(s, Max(Taken(s)) + 2, Len(s))

\* The processed aggregations with source name that resolved.
ResolvedFrom(name) ==
    { i \in 1..Len(Processed) :
        Processed[i].source = name /\ Resolves(classes, Processed[i]) }

\* C2: once process has returned, a class that was the source of resolved
\* aggregations carries the multiplicity of the last of them: min the first
\* and max the last segment of its sourceMultiplicity split on "..".
C2_LastEdgeSetsMultiplicity ==
    pc = "ready" =>
        \A i \in 1..Len(classes) :
            ResolvedFrom(classes[i].name) # {} =>
                LET sm == Processed[Max(ResolvedFrom(classes[i].name))].sourceMultiplicity[1]
                IN  /\ classes[i].min_multiplicity = Some(FirstSegment(sm))
                    /\ classes[i].max_multiplicity = Some(LastSegment(sm))
                    /\ sm = S1Star => /\ classes[i].min_multiplicity = Some(<<"1">>)
                                      /\ classes[i].max_multiplicity = Some(<<"*">>)
                    /\ sm = S1 => /\ classes[i].min_multiplicity = Some(<<"1">>)
                                  /\ classes[i].max_multiplicity = Some(<<"1">>)

\* Class B was the source of two resolved aggregations, "0..5" and then "1".
C2_Witness ==
    /\ pc = "ready"
    /\ Len(aggregations) = 2
    /\ Cardinality(ResolvedFrom("B")) = 2
    /\ aggregations[1].sourceMultiplicity = Some(S05)
    /\ aggregations[2].sourceMultiplicity = Some(S1)
    /\ classes[IndexOf(classes, "B")].max_multiplicity = Some(<<"1">>)

\* The keys of one object of the metadata.
MetaKeys(obj) == { obj[k][1] : k \in 1..Len(obj) }

\* No aggregation of the input has source name and a target in the mapping.
NoResolvableEdge(name) ==
    \A k \in 1..Len(aggregations) :
        aggregations[k].source = name => aggregations[k].target \notin Keys(classes)

\* C3: in every state, each class has min and max multiplicity both set or
\* both unset, set only if it is the source of some aggregation; a class
\* that is no source, or whose aggregations all name a missing target, has
\* both unset, is in no children list and has no min or max key in the
\* metadata.
C3_MultiplicityPaired ==
    \A i \in 1..Len(classes) :
        LET c == classes[i] IN
        /\ (c.min_multiplicity = NoneVal) <=> (c.max_multiplicity = NoneVal)
        /\ c.min_multiplicity # NoneVal =>
              \E k \in 1..Len(aggregations) : aggregations[k].source = c.name
        /\ NoResolvableEdge(c.name) =>
              /\ c.min_multiplicity = NoneVal
              /\ c.max_multiplicity = NoneVal
              /\ \A j \in 1..Len(classes) :
                    \A k \in 1..Len(classes[j].children) : classes[j].children[k] # c.name
              /\ MetaKeys(ClassMeta(c)) \cap {"min", "max"} = {}
              /\ metaOut # NoneVal => MetaKeys(metaOut[1][i]) \cap {"min", "max"} = {}

\* B's only aggregation names a missing target and was skipped, another
\* class got its multiplicity, and the metadata has been generated.
C3_Witness ==
    /\ pc = "ready"
    /\ metaOut # NoneVal
    /\ "B" \in Keys(classes)
    /\ \E k \in 1..Len(aggregations) :
          aggregations[k].source = "B" /\ aggregations[k].target = Unknown
    /\ NoResolvableEdge("B")
    /\ \E i \in 1..Len(classes) : classes[i].min_multiplicity # NoneVal

\* The lines of a text from position start on: its pieces between line
\* breaks.
RECURSIVE LinesAfter(_, _)
LinesAfter(text, start) ==
    IF \E i \in start..Len(text) : text[i] = "\n"
    THEN LET b == CHOOSE i \in start..Len(text) :
                     text[i] = "\n" /\ \A j \in start..(i - 1) : text[j] # "\n"
         IN  <<SubSeq(text, start, b - 1)>> \o LinesAfter(text, b + 1)
    ELSE <<SubSeq(text, start, Len(text))>>

\* How many spaces a line starts with.
LeadingSpaces(line) ==
    CHOOSE n \in 0..Len(line) :
        /\ \A i \in 1..n : line[i] = " "
        /\ n < Len(line) => line[n + 1] # " "

Line(line) ==
    [spaces |-> LeadingSpaces(line),
     body   |-> SubSeq(line, LeadingSpaces(line) + 1, Len(line))]

\* The lines of a text, each with its indentation apart.
LinesOf(text) ==
    LET lines == LinesAfter(text, 1) IN [k \in 1..Len(lines) |-> Line(lines[k])]

RECURSIVE Flatten(_)
Flatten(ss) == IF ss = <<>> THEN <<>> ELSE ss[1] \o Flatten(Tail(ss))

\* The lines of class name at depth d: the open tag at 4*d spaces, the
\* attribute leaves at 4*(d+1), each child's lines at depth d+1, the close
\* tag at 4*d.  Defined where no class below name contains itself.
RECURSIVE ExpectedLines(_, _, _)
ExpectedLines(cls, name, d) ==
    LET c == cls[IndexOf(cls, name)] IN
    << [spaces |-> 4 * d, body |-> <<"<", name, ">">>] >>
    \o [i \in 1..Len(c.attributes) |->
          [spaces |-> 4 * (d + 1),
           body   |-> <<"<", c.attributes[i].name, ">", c.attributes[i].type,
                        "</", c.attributes[i].name, ">">>]]
    \o Flatten([i \in 1..Len(c.children) |-> ExpectedLines(cls, c.children[i], d + 1)])
    \o << [spaces |-> 4 * d, body |-> <<"</", name, ">">>] >>

\* The classes held, at any depth, below the classes of S.
RECURSIVE Below(_, _, _)
Below(cls, S, k) ==
    IF k = 0 THEN {}
    ELSE LET kids == UNION { { cls[i].children[j] : j \in 1..Len(cls[i].children) } :
                             i \in { i \in 1..Len(cls) : cls[i].name \in S } }
         IN  kids \cup Below(cls, kids, k - 1)

Descendants(cls, name) == Below(cls, {name}, Len(cls))

\* name holds, at some depth, a class that contains itself.
CycleFrom(cls, name) ==
    \E m \in Descendants(cls, name) \cup {name} : m \in Descendants(cls, m)

\* The spec's scenario: A is the root, B has attribute x:int and is
\* aggregated into A with multiplicity "0..5".
Scenario ==
    [ok |-> TRUE,
     classElems |-> <<ClassElem("A", Some("true")), ClassElem("B", NoneVal)>>,
     aggElems |-> <<AggElem("B", "A", Some(S05), Some(S1))>>]

ScenarioConfig ==
    <<"<", "A", ">", "\n",
      " ", " ", " ", " ", "<", "B", ">", "\n",
      " ", " ", " ", " ", " ", " ", " ", " ", "<", "x", ">", "int", "</", "x", ">", "\n",
      " ", " ", " ", " ", "</", "B", ">", "\n",
      "</", "A", ">">>

\* C4: the text _build_xml returns for a class at depth d is, line by line,
\* the open tag at 4*d spaces, one leaf per attribute at 4*(d+1) spaces, the
\* children's blocks at depth d+1 and the close tag at 4*d spaces; a class
\* without attributes and children is its two tags; the spec's scenario
\* renders as the spec shows it.
C4_BuildXmlLayout ==
    /\ \A i \in 1..Len(classes) :
          (cfgOut # NoneVal /\ pc = "ready" /\ ~CycleFrom(classes, classes[i].name)) =>
              /\ \A d \in 0..1 :
                    LinesOf(BuildXml(classes, classes[i].name, d))
                        = ExpectedLines(classes, classes[i].name, d)
              /\ (classes[i].attributes = <<>> /\ classes[i].children = <<>>) =>
                    BuildXml(classes, classes[i].name, 0)
                        = <<"<", classes[i].name, ">", "\n", "</", classes[i].name, ">">>
    /\ (cfgOut # NoneVal /\ RootClass(classes) # 0 /\ pc = "ready"
            /\ ~CycleFrom(classes, classes[RootClass(classes)].name)) =>
          LinesOf(cfgOut[1]) = ExpectedLines(classes, classes[RootClass(classes)].name, 0)
    /\ (doc = Scenario /\ cfgOut # NoneVal) => cfgOut[1] = ScenarioConfig

\* The returned config nests three classes: some line starts with 12 spaces.
C4_Witness ==
    /\ pc = "ready"
    /\ cfgOut # NoneVal
    /\ cfgOut[1] # RecursionError
    /\ \E k \in 1..Len(LinesOf(cfgOut[1])) : LinesOf(cfgOut[1])[k].spaces = 12

\* The keys of one object of the metadata, in order.
KeySeq(obj) == [k \in 1..Len(obj) |-> obj[k][1]]

\* The value under key of one object of the metadata.
ValueOf(obj, key) == obj[CHOOSE k \in 1..Len(obj) : obj[k][1] = key][2]

\* C5: the metadata has one object per class, in the mapping's order; its
\* keys are class, documentation, isRoot, then max and min where set, then
\* parameters; parameters lists the attributes in order and then the
\* children in order, each child as {name, type: "class"}.
C5_MetaLayout ==
    metaOut # NoneVal /\ pc = "ready" =>
        /\ Len(metaOut[1]) = Len(classes)
        /\ \A i \in 1..Len(classes) :
              LET c == classes[i]
                  obj == metaOut[1][i]
                  params == ValueOf(obj, "parameters")
                  na == Len(c.attributes)
              IN  /\ KeySeq(obj) =
                        <<"class", "documentation", "isRoot">>
                        \o (IF c.max_multiplicity # NoneVal THEN <<"max">> ELSE <<>>)
                        \o (IF c.min_multiplicity # NoneVal THEN <<"min">> ELSE <<>>)
                        \o <<"parameters">>
                  /\ ValueOf(obj, "class") = c.name
                  /\ ValueOf(obj, "documentation") = c.documentation
                  /\ ValueOf(obj, "isRoot") = c.is_root
                  /\ c.max_multiplicity # NoneVal => ValueOf(obj, "max") = c.max_multiplicity[1]
                  /\ c.min_multiplicity # NoneVal => ValueOf(obj, "min") = c.min_multiplicity[1]
                  /\ Len(params) = na + Len(c.children)
                  /\ \A k \in 1..na :
                        params[k] = << <<"name", c.attributes[k].name>>,
                                       <<"type", c.attributes[k].type>> >>
                  /\ \A k \in 1..Len(c.children) :
                        params[na + k] = << <<"name", c.children[k]>>, <<"type", "class">> >>

\* The metadata of a class with an attribute, a child and a multiplicity
\* has been generated, after the metadata of another class.
C5_Witness ==
    /\ pc = "ready"
    /\ metaOut # NoneVal
    /\ \E i \in 2..Len(classes) :
          /\ classes[i].attributes # <<>>
          /\ classes[i].children # <<>>
          /\ classes[i].min_multiplicity # NoneVal
          /\ Len(metaOut[1][i]) = 6

\* The positions of the root classes of the mapping.
Roots(cls) == { i \in 1..Len(cls) : cls[i].is_root }

\* The names in the tags of a text.
TagNames(text) == { text[k + 1] : k \in { k \in 1..(Len(text) - 1) : text[k] \in {"<", "</"} } }

AttrNames(cls) ==
    UNION { { cls[i].attributes[k].name : k \in 1..Len(cls[i].attributes) } : i \in 1..Len(cls) }

\* C6: generate_config_xml returns the empty text exactly when the mapping
\* has no root class; otherwise, where the rendering ends, it returns the
\* rendering of the first root class in the mapping's order, in which no
\* class appears that the root does not hold at some depth.
C6_RootSelection ==
    cfgOut # NoneVal /\ Callable =>
        /\ cfgOut[1] = <<>> <=> Roots(classes) = {}
        /\ Roots(classes) # {} =>
              LET first == CHOOSE i \in Roots(classes) : \A j \in Roots(classes) : i <= j
                  root == classes[first].name
              IN  /\ cfgOut[1] = BuildXml(classes, root, 0)
                  /\ cfgOut[1] = RecursionError <=> CycleFrom(classes, root)
                  /\ cfgOut[1] # RecursionError =>
                        /\ SubSeq(cfgOut[1], 1, 3) = <<"<", root, ">">>
                        /\ (TagNames(cfgOut[1]) \ AttrNames(classes))
                               = {root} \cup Descendants(classes, root)

\* A config was returned for a mapping of three classes whose first class
\* is no root and whose other two are, the first root holding one class.
C6_Witness ==
    /\ pc = "ready"
    /\ cfgOut # NoneVal
    /\ cfgOut[1] # RecursionError
    /\ Cardinality(Roots(classes)) = 2
    /\ Len(classes) = 3
    /\ 1 \notin Roots(classes)
    /\ Cardinality(TagNames(cfgOut[1]) \ AttrNames(classes)) = 2

\* C8: a render call changes no class record; every later render call
\* returns what the first one returned; and when parse_classes is called
\* again on the same input, process ends with the model it ended with the
\* first time (no children list grows).
C8_Idempotent ==
    [][ /\ (cfgOut' # cfgOut \/ metaOut' # metaOut) =>
              (classes' = classes /\ aggregations' = aggregations)
        /\ cfgOut # NoneVal => cfgOut' = cfgOut
        /\ metaOut # NoneVal => metaOut' = metaOut
        /\ (resolved # NoneVal /\ pc' = "ready") => classes' = resolved[1]
        /\ resolved # NoneVal => resolved' = resolved ]_vars

\* parse_classes runs a second time, after both outputs were returned, on
\* a model with one root class that holds classes and no cycle: the mapping
\* is new and the last aggregation is still to be attached.
C8_Witness ==
    /\ pc = "processing"
    /\ idx = Len(aggregations)
    /\ cfgOut # NoneVal
    /\ metaOut # NoneVal
    /\ resolved # NoneVal
    /\ classes # resolved[1]
    /\ Cardinality(Roots(resolved[1])) = 1
    /\ \A i \in 1..Len(resolved[1]) : ~CycleFrom(resolved[1], resolved[1][i].name)
    /\ Descendants(resolved[1], resolved[1][RootClass(resolved[1])].name) # {}

\* C9: on a well-formed input parse_classes never fails: a class without
\* isRoot is no root, one without documentation has the empty one, and an
\* aggregation without sourceMultiplicity or targetMultiplicity between two
\* classes of the mapping is resolved without an error.
C9_MissingAttributesNeverFail ==
    doc.ok =>
        /\ exc = NoneVal
        /\ \A i \in 1..Len(classes) :
              \A k \in 1..Len(doc.classElems) :
                 (doc.classElems[k].name = classes[i].name
                    /\ \A j \in (k + 1)..Len(doc.classElems) :
                          doc.classElems[j].name # classes[i].name) =>
                     /\ doc.classElems[k].isRoot = NoneVal => ~classes[i].is_root
                     /\ doc.classElems[k].documentation = NoneVal =>
                           classes[i].documentation = ""

\* C7: when parse_classes raises (the file is malformed or unreadable, or
\* the resolution fails), main has ended without opening an output file:
\* both files are as the run found them.
C7_NoOutputOnParseFailure ==
    (pc = "raised" /\ exc \in {Some("ParseError"), Some("AttributeError")}) =>
        /\ opened = {}
        /\ configFile \in {NoneVal, Some(Stale)}
        /\ metaFile = configFile

\* main ended on a malformed input, and the files of an earlier run are
\* still there.
C7_Witness ==
    /\ pc = "raised"
    /\ ~doc.ok
    /\ exc = Some("ParseError")
    /\ configFile = Some(Stale)
    /\ metaFile = Some(Stale)

\* The root class that generate picks holds, at some depth, a class that
\* contains itself.
RootCycle(cls) == RootClass(cls) # 0 /\ CycleFrom(cls, cls[RootClass(cls)].name)

\* Some class of the mapping contains itself.
AnyCycle(cls) == \E i \in 1..Len(cls) : cls[i].name \in Descendants(cls, cls[i].name)

\* The run is over: generate_config_xml returned, or a call raised.
Terminated == pc \in {"done", "raised"}

\* C10 (as amended): every run ends.  Edge resolution ends by returning or
\* by raising; the metadata render then ends with one object per class,
\* cycle or not; the config render returns, with the text of _build_xml,
\* exactly when no cycle can be reached from the root class it picks (or
\* there is none); when one can, it never returns: the recursion goes on
\* until the interpreter's RecursionError.
C10_TerminationFromRoot ==
    /\ <>Terminated
    /\ [](pc \in {"cfg", "build", "done"} \/ (pc = "raised" /\ exc = Some("RecursionError"))
            => (resolved = Some(classes) /\ metaOut # NoneVal
                /\ Len(metaOut[1]) = Len(classes)))
    /\ [](pc = "done" =>
            (~RootCycle(classes) /\ cfgOut # NoneVal
             /\ cfgOut[1] = ConfigGenerate(classes)))
    /\ []((pc = "raised" /\ exc = Some("RecursionError")) =>
            (RootCycle(classes) /\ cfgOut = NoneVal))

\* The metadata was rendered for a model in which the root class holds a
\* class containing itself, and the config render ended in RecursionError.
C10_Witness ==
    /\ pc = "raised"
    /\ exc = Some("RecursionError")
    /\ RootCycle(classes)
    /\ metaOut # NoneVal
    /\ Len(metaOut[1]) = Len(classes)

\* C10 (as claimed): when the aggregations describe a cycle, the config
\* render never returns a result.
C10_AnyCycleNeverReturns == AnyCycle(classes) => pc # "done"

====
